---- MODULE Spec2Model ----
(***************************************************************************)
(* Streaming ingestion layer of ai-tui (package internal/llm): ParseSSE    *)
(* (the frame extractor goroutine), the two decoders, and the two          *)
(* providers' Stream pipelines, with a caller that receives and cancels.   *)
(***************************************************************************)
EXTENDS Integers, Sequences, FiniteSets, TLC

(* ------------------------------ bounds --------------------------------- *)

\* longest general source (in lines) the model enumerates
MaxLines == 3
\* largest record count of the cancellation regression sources
MaxRecords == 6
\* longest general source of the fair specification
MaxLiveLines == 2

(* -------------------------- program constants -------------------------- *)

\* make(chan StreamChunk, 1) in ParseSSE
SSEChanCap == 1
\* make(chan StreamChunk, 1) in claudeProvider.Stream
OutChanCap == 1
\* the regression streams five records
RegressionN == 5

(* ------------------------------- chunks -------------------------------- *)

\* a nil error
NoError == <<>>

\* StreamChunk{Content, Done, Error}
StreamChunk(content, done, err) == [Content |-> content, Done |-> done, Error |-> err]

\* StreamChunk{}
ZeroChunk == StreamChunk("", FALSE, NoError)

\* a chunk after which the stream is over for the caller
IsTerminal(c) == c.Done \/ c.Error # NoError

(* ------------------------------ payloads ------------------------------- *)

\* a JSON member that is missing or not of the type the decoder asserts
Absent == "<absent>"

\* the documents the payload tokens stand for, as encoding/json sees them:
\* ok = the bytes are a JSON object; the other fields are its members
Doc(ok, type, hasDelta, text, errmsg, nchoices, content, finish) ==
    [ok |-> ok, type |-> type, hasDelta |-> hasDelta, text |-> text,
     errmsg |-> errmsg, nchoices |-> nchoices, content |-> content,
     finish |-> finish]

NotJSON == Doc(FALSE, Absent, FALSE, Absent, Absent, 0, Absent, Absent)

EventDoc(type, hasDelta, text, errmsg) ==
    Doc(TRUE, type, hasDelta, text, errmsg, 0, Absent, Absent)

DeltaDoc(nchoices, content, finish) ==
    Doc(TRUE, Absent, FALSE, Absent, Absent, nchoices, content, finish)

\* json.Unmarshal(data, &v): the document a payload token parses to
Unmarshal(data) ==
    CASE data = "cdelta_a"  -> EventDoc("content_block_delta", TRUE, "a", Absent)
      [] data = "cdelta_b"  -> EventDoc("content_block_delta", TRUE, "b", Absent)
      [] data = "cdelta_e"  -> EventDoc("content_block_delta", TRUE, "", Absent)
      [] data = "cdelta_nt" -> EventDoc("content_block_delta", TRUE, Absent, Absent)
      [] data = "cdelta_nd" -> EventDoc("content_block_delta", FALSE, Absent, Absent)
      [] data = "cstart"    -> EventDoc("message_start", FALSE, Absent, Absent)
      [] data = "cnotype"   -> EventDoc(Absent, FALSE, Absent, Absent)
      [] data = "cnull"     -> EventDoc(Absent, FALSE, Absent, Absent)
      [] data = "carray"    -> NotJSON
      [] data = "cstop"     -> EventDoc("message_stop", FALSE, Absent, Absent)
      [] data = "cerror"    -> EventDoc("error", FALSE, Absent, "overloaded")
      [] data = "cerror_nm" -> EventDoc("error", FALSE, Absent, Absent)
      [] data = "odelta_a"  -> DeltaDoc(1, "a", Absent)
      [] data = "odelta_b"  -> DeltaDoc(1, "b", Absent)
      [] data = "odelta_f"  -> DeltaDoc(1, "b", "stop")
      [] data = "odelta_nc" -> DeltaDoc(1, Absent, Absent)
      [] data = "ozero"     -> DeltaDoc(0, Absent, Absent)
      [] OTHER              -> NotJSON

\* the decoder without the default message of an error event
ClaudeOnDataNoDefault(data) ==
    LET event == Unmarshal(data) IN
    IF ~event.ok
    THEN <<StreamChunk("", FALSE, <<"failed to parse SSE data">>), TRUE>>
    ELSE IF event.type = Absent
    THEN <<ZeroChunk, FALSE>>
    ELSE CASE event.type = "content_block_delta" ->
                IF ~event.hasDelta THEN <<ZeroChunk, FALSE>>
                ELSE IF event.text = Absent THEN <<ZeroChunk, FALSE>>
                ELSE <<StreamChunk(event.text, FALSE, NoError), FALSE>>
           [] event.type = "message_stop" ->
                <<StreamChunk("", TRUE, NoError), TRUE>>
           [] event.type = "error" ->
                LET errMsg == event.errmsg
                IN <<StreamChunk("", FALSE, <<"API error: ", errMsg>>), TRUE>>
           [] OTHER -> <<ZeroChunk, FALSE>>

\* the decoder taking a delta without a string text for an error
ClaudeOnDataStrict(data) ==
    LET event == Unmarshal(data) IN
    IF ~event.ok
    THEN <<StreamChunk("", FALSE, <<"failed to parse SSE data">>), TRUE>>
    ELSE IF event.type = Absent
    THEN <<ZeroChunk, FALSE>>
    ELSE CASE event.type = "content_block_delta" ->
                IF ~event.hasDelta THEN <<ZeroChunk, FALSE>>
                ELSE IF event.text = Absent
                THEN <<StreamChunk("", FALSE, <<"failed to parse SSE data">>), TRUE>>
                ELSE <<StreamChunk(event.text, FALSE, NoError), FALSE>>
           [] event.type = "message_stop" ->
                <<StreamChunk("", TRUE, NoError), TRUE>>
           [] event.type = "error" ->
                LET errMsg == IF event.errmsg = Absent THEN "unknown error"
                              ELSE event.errmsg
                IN <<StreamChunk("", FALSE, <<"API error: ", errMsg>>), TRUE>>
           [] OTHER -> <<ZeroChunk, FALSE>>

\* claudeProvider.Stream's decoder closure: <<chunk, stop>>
ClaudeOnData(data) ==
    LET event == Unmarshal(data) IN
    IF ~event.ok
    THEN <<StreamChunk("", FALSE, <<"failed to parse SSE data">>), TRUE>>
    ELSE IF event.type = Absent
    THEN <<ZeroChunk, FALSE>>
    ELSE CASE event.type = "content_block_delta" ->
                IF ~event.hasDelta THEN <<ZeroChunk, FALSE>>
                ELSE IF event.text = Absent THEN <<ZeroChunk, FALSE>>
                ELSE <<StreamChunk(event.text, FALSE, NoError), FALSE>>
           [] event.type = "message_stop" ->
                <<StreamChunk("", TRUE, NoError), TRUE>>
           [] event.type = "error" ->
                LET errMsg == IF event.errmsg = Absent THEN "unknown error"
                              ELSE event.errmsg
                IN <<StreamChunk("", FALSE, <<"API error: ", errMsg>>), TRUE>>
           [] OTHER -> <<ZeroChunk, FALSE>>

\* parseChunk that keeps the stream open after the sentinel
parseChunkNoStop(data) ==
    IF data = "[DONE]"
    THEN <<StreamChunk("", TRUE, NoError), FALSE>>
    ELSE LET response == Unmarshal(data) IN
         IF ~response.ok
         THEN <<StreamChunk("", FALSE, <<"failed to parse chunk">>), TRUE>>
         ELSE IF response.nchoices > 0
         THEN LET content == IF response.content = Absent THEN ""
                             ELSE response.content
              IN <<StreamChunk(content, FALSE, NoError), FALSE>>
         ELSE <<ZeroChunk, FALSE>>

\* parseChunk that ends the stream at a finish reason
parseChunkStopsOnFinish(data) ==
    IF data = "[DONE]"
    THEN <<StreamChunk("", TRUE, NoError), TRUE>>
    ELSE LET response == Unmarshal(data) IN
         IF ~response.ok
         THEN <<StreamChunk("", FALSE, <<"failed to parse chunk">>), TRUE>>
         ELSE IF response.nchoices > 0
         THEN LET content == IF response.content = Absent THEN ""
                             ELSE response.content
              IN IF response.finish # Absent /\ response.finish # ""
                 THEN <<StreamChunk(content, TRUE, NoError), TRUE>>
                 ELSE <<StreamChunk(content, FALSE, NoError), FALSE>>
         ELSE <<ZeroChunk, FALSE>>

\* openaiProvider.parseChunk: <<chunk, stop>>
parseChunk(data) ==
    IF data = "[DONE]"
    THEN <<StreamChunk("", TRUE, NoError), TRUE>>
    ELSE LET response == Unmarshal(data) IN
         IF ~response.ok
         THEN <<StreamChunk("", FALSE, <<"failed to parse chunk">>), TRUE>>
         ELSE IF response.nchoices > 0
         THEN LET content == IF response.content = Absent THEN ""
                             ELSE response.content
              IN IF response.finish # Absent /\ response.finish # ""
                 THEN <<StreamChunk(content, FALSE, NoError), FALSE>>
                 ELSE <<StreamChunk(content, FALSE, NoError), FALSE>>
         ELSE <<ZeroChunk, FALSE>>

(* -------------------------------- lines -------------------------------- *)

\* a line is a sequence of characters; a payload is one token of it
DataPrefix == <<"d", "a", "t", "a", ":", " ">>
CommentPrefix == <<":">>

\* strings.HasPrefix
HasPrefix(line, prefix) ==
    /\ Len(line) >= Len(prefix)
    /\ \A i \in 1..Len(prefix) : line[i] = prefix[i]

\* strings.TrimPrefix(line, "data: ") of a line with that prefix
TrimPrefix(line, prefix) ==
    IF HasPrefix(line, prefix) THEN SubSeq(line, Len(prefix) + 1, Len(line))
    ELSE line

DataLine(tok) == DataPrefix \o <<tok>>

BlankLine == <<>>
CommentLine == <<":", "k">>
FieldLine == <<"e", "v", "e", "n", "t", ":", " ", "x">>

\* the lines a response of the event-typed provider is made of
ClaudeLines ==
    <<BlankLine, CommentLine,
      DataLine("cdelta_a"), DataLine("cdelta_b"), DataLine("cstart"),
      DataLine("cstop"), DataLine("cerror"), DataLine("{bad")>>

\* the lines a response of the delta-typed provider is made of
OpenAILines ==
    <<BlankLine, CommentLine,
      DataLine("odelta_a"), DataLine("odelta_b"), DataLine("ozero"),
      DataLine("[DONE]"), DataLine("{bad")>>


SetOf(seq) == {seq[i] : i \in 1..Len(seq)}

\* every sequence of at most n lines drawn from the set lines
SeqsUpTo(lines, n) == UNION {[1..k -> lines] : k \in 0..n}

\* the cancellation regression: n records, each carrying content
RegressionSource(tok, n) == [i \in 1..n |-> DataLine(tok)]

ClaudeRegressions == {RegressionSource("cdelta_a", n) : n \in RegressionN..MaxRecords}
OpenAIRegressions == {RegressionSource("odelta_a", n) : n \in RegressionN..MaxRecords}

ClaudeSources(n) == SeqsUpTo(SetOf(ClaudeLines), n) \cup ClaudeRegressions
OpenAISources(n) == SeqsUpTo(SetOf(OpenAILines), n) \cup OpenAIRegressions

(* -------------------------------- state -------------------------------- *)

VARIABLES
    mode,          \* "openai": Stream returns ParseSSE's channel; "claude": forwarder in between
    source,        \* the lines of the response body
    cancelled,     \* ctx.Done() is closed
    ssePc,         \* position of the ParseSSE goroutine
    idx,           \* lines the scanner has returned
    scanErr,       \* scanner.Err() != nil
    partial,       \* the unterminated last line a failed read left, <<>> if none
    sseHold,       \* chunk and stop the extractor holds at its send
    sseCh,         \* buffer of ParseSSE's channel
    sseChCloses,   \* close(ch) calls on ParseSSE's channel
    fwdPc,         \* position of claudeProvider.Stream's goroutine
    fwdHold,       \* chunk the forwarder holds at its send
    outCh,         \* buffer of the forwarding channel
    outChCloses,   \* close(ch) calls on the forwarding channel
    bodyCloses,    \* Close calls on the response body, per caller
    lateSends,     \* sends attempted on a closed channel
    decoded,       \* lines the callback has been invoked for
    stopAt,        \* line whose callback result said stop, 0 if none
    exitPath,      \* the return the ParseSSE goroutine took, "" while it runs
    received,      \* chunks the caller has received, in order
    sawClosed,     \* the caller's receive has observed the channel closed
    recvAtCancel,  \* chunks received when the caller cancelled, -1 before
    streamPc,      \* "call" until the provider's Stream has returned
    status,        \* status code of the response, 0 while there is none
    retErr,        \* the error Stream returned
    reqBody,       \* the request body Stream has built
    msgs,          \* the messages the caller passes to Stream
    systemPrompt,  \* the provider's configured system prompt, "" if none
    compose,       \* AppModel.compose, the compose view's Model
    streams,       \* per stream: its streamCmd, context, channel and goroutine
    gen            \* compose models ctrl+n has replaced

vars == <<mode, source, cancelled, ssePc, idx, scanErr, sseHold, sseCh,
          sseChCloses, fwdPc, fwdHold, outCh, outChCloses, bodyCloses,
          lateSends, decoded, stopAt, exitPath, received, sawClosed,
          recvAtCancel, partial, streamPc, status, retErr, reqBody, msgs,
          systemPrompt, compose, streams, gen>>

sseVars == <<ssePc, idx, scanErr, sseHold, sseCh, sseChCloses, decoded, stopAt,
            exitPath, partial>>
fwdVars == <<fwdPc, fwdHold, outCh, outChCloses>>
callerVars == <<received, sawClosed, recvAtCancel, cancelled>>
reqVars == <<streamPc, status, retErr, reqBody>>
hostVars == <<msgs, systemPrompt>>
composeVars == <<compose, streams, gen>>

NoHold == [chunk |-> ZeroChunk, stop |-> FALSE]

\* the callback ParseSSE is bound to
onData(data) == IF mode = "claude" THEN ClaudeOnData(data) ELSE parseChunk(data)

\* a nil error return of Stream
NilErr == [kind |-> "nil", status |-> 0, body |-> <<>>]

\* llm.ChatMessage
ChatMessage(role, content) == [Role |-> role, Content |-> content]

\* the request body before Stream has built it
NoBody == [built |-> FALSE, messages |-> <<>>, system |-> Absent, stream |-> FALSE]

(* --------------------------- the compose view -------------------------- *)

\* streams one run of the program starts
MaxStreams == 2
\* chunks one provider channel delivers before it closes
MaxChunks == 2
\* presses of ctrl+n
MaxNewChats == 1

StreamIds == 1..MaxStreams

\* compose.DisplayMessage
DisplayMessage(role, content) == [Role |-> role, Content |-> content]

\* compose.New: the model of a new chat, with a stream buffer of its own;
\* cancelFn is the stream whose context the function cancels, 0 for nil
New ==
    [textarea |-> "", messages |-> <<>>, streaming |-> FALSE, streamBuf |-> "",
     cancelFn |-> 0, err |-> NoError]

\* the messages streamCmd produces
NoMsg == [type |-> "none", Cancel |-> 0, Err |-> NoError, Content |-> "", Done |-> FALSE]
StreamStartedMsg(cancel) == [NoMsg EXCEPT !.type = "StreamStartedMsg", !.Cancel = cancel]
StreamErrMsg(err) == [NoMsg EXCEPT !.type = "StreamErrMsg", !.Err = err]
StreamChunkMsg(content, done) ==
    [NoMsg EXCEPT !.type = "StreamChunkMsg", !.Content = content, !.Done = done]

\* a stream no Enter has asked for: cmd is the position of its streamCmd
\* ("none", "queued", "returned", "delivered"), ret the message the command
\* returned, ctxDone its context, ch what its channel has still to deliver,
\* go the position of its forwarding goroutine ("none", "range", "send",
\* "done"), hold the message that goroutine has in p.Send, model the compose
\* model that started it, ended whether a Done or error message of it has
\* reached Update
NoStream ==
    [cmd |-> "none", ret |-> NoMsg, ctxDone |-> FALSE, ch |-> <<>>, go |-> "none",
     hold |-> NoMsg, model |-> 0, ended |-> FALSE]

\* the program before the first key press
InitCompose ==
    /\ compose = New
    /\ streams = [s \in StreamIds |-> NoStream]
    /\ gen = 0

\* state when the caller is about to call the provider's Stream; source is
\* the body of the response the server will give
InitStream(claudeSrc, openaiSrc) ==
    /\ mode \in {"claude", "openai"}
    /\ source \in (IF mode = "claude" THEN claudeSrc ELSE openaiSrc)
    /\ cancelled = FALSE
    /\ ssePc = "idle"
    /\ idx = 0
    /\ scanErr = FALSE
    /\ sseHold = NoHold
    /\ sseCh = <<>>
    /\ sseChCloses = 0
    /\ fwdPc = "none"
    /\ fwdHold = ZeroChunk
    /\ outCh = <<>>
    /\ outChCloses = 0
    /\ bodyCloses = [extractor |-> 0, forwarder |-> 0, stream |-> 0]
    /\ lateSends = 0
    /\ decoded = 0
    /\ stopAt = 0
    /\ exitPath = ""
    /\ received = <<>>
    /\ sawClosed = FALSE
    /\ recvAtCancel = -1
    /\ partial = <<>>
    /\ streamPc = "call"
    /\ status = 0
    /\ retErr = NilErr
    /\ reqBody = NoBody
    /\ InitCompose

\* a caller with one user message and a provider without a system prompt
InitWith(claudeSrc, openaiSrc) ==
    /\ InitStream(claudeSrc, openaiSrc)
    /\ msgs = <<ChatMessage("user", "hi")>>
    /\ systemPrompt = ""

Init == InitWith(ClaudeSources(MaxLines), OpenAISources(MaxLines))

(* --------------------------- Provider.Stream --------------------------- *)

\* http.StatusOK
StatusOK == 200

\* the status codes the server may answer with
Statuses == {200, 201, 204, 401, 500}

\* the steps of Stream that fail before there is a response: json.Marshal,
\* http.NewRequestWithContext, p.client.Do
RequestFailures ==
    {"failed to marshal request", "failed to create request", "failed to send request"}

\* fmt.Errorf("failed to ...: %w", err)
RequestError(step) == [kind |-> step, status |-> 0, body |-> <<>>]

\* fmt.Errorf("API error (status %d): %s", resp.StatusCode, string(body))
APIError(st, body) == [kind |-> "API error", status |-> st, body |-> body]

\* every 2xx status taken for success
IsOKAny2xx(st) == st \in 200..299

\* the negation of resp.StatusCode != http.StatusOK
IsOK(st) == st = StatusOK

\* the request body with the system prompt put after the caller's messages
OpenAIRequestPromptLast(prompt, messages) ==
    LET reqMessages ==
            messages
                \o (IF prompt # "" THEN <<ChatMessage("system", prompt)>> ELSE <<>>)
    IN [built |-> TRUE, messages |-> reqMessages, system |-> Absent, stream |-> TRUE]

\* the request body of openaiProvider.Stream: the system prompt, if there is
\* one, as a first message ahead of a copy of the caller's messages
OpenAIRequest(prompt, messages) ==
    LET reqMessages ==
            (IF prompt # "" THEN <<ChatMessage("system", prompt)>> ELSE <<>>)
                \o messages
    IN [built |-> TRUE, messages |-> reqMessages, system |-> Absent, stream |-> TRUE]

\* the request body of claudeProvider.Stream: the caller's messages and, if
\* there is a system prompt, the top-level field system
ClaudeRequest(prompt, messages) ==
    [built |-> TRUE, messages |-> messages,
     system |-> IF prompt # "" THEN prompt ELSE Absent, stream |-> TRUE]

\* reqBody := map[string]interface{}{...}
BuildRequest ==
    IF mode = "claude" THEN ClaudeRequest(systemPrompt, msgs)
    ELSE OpenAIRequest(systemPrompt, msgs)

\* Stream has returned a channel and a nil error
HasStream == streamPc = "returned" /\ retErr = NilErr

\* Stream returning the status error without closing the body
StreamLeavesBodyOpen ==
    /\ streamPc = "call"
    /\ streamPc' = "returned"
    /\ reqBody' = BuildRequest
    /\ \/ /\ \E step \in RequestFailures : retErr' = RequestError(step)
          /\ UNCHANGED <<status, bodyCloses, ssePc, fwdPc>>
       \/ \E st \in Statuses :
             /\ status' = st
             /\ IF IsOK(st)
                THEN /\ retErr' = NilErr
                     /\ ssePc' = IF mode = "openai" THEN "scan" ELSE "idle"
                     /\ fwdPc' = IF mode = "claude" THEN "start" ELSE "none"
                     /\ UNCHANGED bodyCloses
                ELSE /\ retErr' = APIError(st, source)
                     /\ UNCHANGED bodyCloses
                     /\ UNCHANGED <<ssePc, fwdPc>>
    /\ UNCHANGED <<idx, scanErr, sseHold, sseCh, sseChCloses, decoded, stopAt,
                   exitPath, partial>>
    /\ UNCHANGED <<fwdHold, outCh, outChCloses>>
    /\ UNCHANGED <<mode, source, lateSends>>
    /\ UNCHANGED callerVars
    /\ UNCHANGED hostVars
    /\ UNCHANGED composeVars

\* Stream up to its return: the request fails before there is a response, or
\* the response has another status than 200 and Stream reads its body, closes
\* it and returns the error, or Stream starts the pipeline on the body
Stream ==
    /\ streamPc = "call"
    /\ streamPc' = "returned"
    /\ reqBody' = BuildRequest
    /\ \/ /\ \E step \in RequestFailures : retErr' = RequestError(step)
          /\ UNCHANGED <<status, bodyCloses, ssePc, fwdPc>>
       \/ \E st \in Statuses :
             /\ status' = st
             /\ IF IsOK(st)
                THEN /\ retErr' = NilErr
                     /\ ssePc' = IF mode = "openai" THEN "scan" ELSE "idle"
                     /\ fwdPc' = IF mode = "claude" THEN "start" ELSE "none"
                     /\ UNCHANGED bodyCloses
                ELSE /\ retErr' = APIError(st, source)
                     /\ bodyCloses' = [bodyCloses EXCEPT !.stream = @ + 1]
                     /\ UNCHANGED <<ssePc, fwdPc>>
    /\ UNCHANGED <<idx, scanErr, sseHold, sseCh, sseChCloses, decoded, stopAt,
                   exitPath, partial>>
    /\ UNCHANGED <<fwdHold, outCh, outChCloses>>
    /\ UNCHANGED <<mode, source, lateSends>>
    /\ UNCHANGED callerVars
    /\ UNCHANGED hostVars
    /\ UNCHANGED composeVars

(* ------------------------- ParseSSE goroutine -------------------------- *)

\* a payload cut short by a failed read
CutPayload == "{cut"

\* the unterminated lines a read failing inside line can leave in the
\* scanner's buffer: a data line with its payload cut short, another line
\* less its last character
Truncations(line) ==
    IF HasPrefix(line, DataPrefix)
    THEN {DataLine(CutPayload)}
    ELSE IF Len(line) > 1 THEN {SubSeq(line, 1, Len(line) - 1)} ELSE {}

\* the i-th line the scanner returned
LineAt(i) == IF i = idx /\ partial # <<>> THEN partial ELSE source[i]

\* line := scanner.Text()
CurLine == LineAt(idx)

\* data := []byte(strings.TrimPrefix(line, "data: ")), as one token
PayloadOf(line) ==
    LET rest == TrimPrefix(line, DataPrefix)
    IN IF rest = <<>> THEN "" ELSE rest[1]

\* for scanner.Scan(): the next line, the end of the body, or a failed read,
\* which leaves either nothing or an unterminated line that the scanner
\* returns as its last line before it reports the error
SSEScan ==
    /\ ssePc = "scan"
    /\ \/ /\ ~scanErr
          /\ idx < Len(source)
          /\ idx' = idx + 1
          /\ ssePc' = "check"
          /\ UNCHANGED <<scanErr, exitPath, partial>>
       \/ /\ ~scanErr
          /\ idx = Len(source)
          /\ ssePc' = "closebody"
          /\ exitPath' = "exhausted"
          /\ UNCHANGED <<idx, scanErr, partial>>
       \/ /\ ~scanErr
          /\ scanErr' = TRUE
          /\ ssePc' = "errsend"
          /\ UNCHANGED <<idx, exitPath, partial>>
       \/ /\ ~scanErr
          /\ idx < Len(source)
          /\ \E t \in Truncations(source[idx + 1]) : partial' = t
          /\ idx' = idx + 1
          /\ scanErr' = TRUE
          /\ ssePc' = "check"
          /\ UNCHANGED exitPath
       \/ /\ scanErr
          /\ ssePc' = "errsend"
          /\ UNCHANGED <<idx, scanErr, exitPath, partial>>
    /\ UNCHANGED <<sseHold, sseCh, sseChCloses, decoded, stopAt>>
    /\ UNCHANGED <<mode, source, bodyCloses, lateSends>>
    /\ UNCHANGED fwdVars
    /\ UNCHANGED callerVars
    /\ UNCHANGED reqVars
    /\ UNCHANGED hostVars
    /\ UNCHANGED composeVars

\* the loop taking every line that begins with "data:" for a data line
SSECheckLoosePrefix ==
    /\ ssePc = "check"
    /\ IF cancelled
       THEN /\ ssePc' = "closebody"
            /\ exitPath' = "cancel at line"
            /\ UNCHANGED <<sseHold, decoded, stopAt>>
       ELSE LET line == CurLine IN
            IF line = BlankLine
            THEN /\ ssePc' = "scan"
                 /\ UNCHANGED <<sseHold, decoded, stopAt, exitPath>>
            ELSE IF HasPrefix(line, CommentPrefix)
            THEN /\ ssePc' = "scan"
                 /\ UNCHANGED <<sseHold, decoded, stopAt, exitPath>>
            ELSE IF HasPrefix(line, <<"d", "a", "t", "a", ":">>)
            THEN LET data == PayloadOf(line)
                     res == onData(data)
                 IN /\ sseHold' = [chunk |-> res[1], stop |-> res[2]]
                    /\ decoded' = decoded + 1
                    /\ stopAt' = IF res[2] THEN idx ELSE stopAt
                    /\ ssePc' = "send"
                    /\ UNCHANGED exitPath
            ELSE /\ ssePc' = "scan"
                 /\ UNCHANGED <<sseHold, decoded, stopAt, exitPath>>
    /\ UNCHANGED <<idx, scanErr, sseCh, sseChCloses>>
    /\ UNCHANGED <<mode, source, bodyCloses, lateSends>>
    /\ UNCHANGED fwdVars
    /\ UNCHANGED callerVars
    /\ UNCHANGED partial
    /\ UNCHANGED reqVars
    /\ UNCHANGED hostVars
    /\ UNCHANGED composeVars

\* the loop without the cancellation poll at the line start
SSECheckNoPoll ==
    /\ ssePc = "check"
    /\ LET line == CurLine IN
       IF line = BlankLine
       THEN /\ ssePc' = "scan"
            /\ UNCHANGED <<sseHold, decoded, stopAt, exitPath>>
       ELSE IF HasPrefix(line, CommentPrefix)
       THEN /\ ssePc' = "scan"
            /\ UNCHANGED <<sseHold, decoded, stopAt, exitPath>>
       ELSE IF HasPrefix(line, DataPrefix)
       THEN LET data == PayloadOf(line)
                res == onData(data)
            IN /\ sseHold' = [chunk |-> res[1], stop |-> res[2]]
               /\ decoded' = decoded + 1
               /\ stopAt' = IF res[2] THEN idx ELSE stopAt
               /\ ssePc' = "send"
               /\ UNCHANGED exitPath
       ELSE /\ ssePc' = "scan"
            /\ UNCHANGED <<sseHold, decoded, stopAt, exitPath>>
    /\ UNCHANGED <<idx, scanErr, sseCh, sseChCloses>>
    /\ UNCHANGED <<mode, source, bodyCloses, lateSends>>
    /\ UNCHANGED fwdVars
    /\ UNCHANGED callerVars
    /\ UNCHANGED partial
    /\ UNCHANGED reqVars
    /\ UNCHANGED hostVars
    /\ UNCHANGED composeVars

\* the loop that decodes the line before it polls ctx.Done()
SSECheckPollAfterDecode ==
    /\ ssePc = "check"
    /\ LET line == CurLine IN
       IF HasPrefix(line, DataPrefix) /\ line # BlankLine /\ ~HasPrefix(line, CommentPrefix)
       THEN LET data == PayloadOf(line)
                res == onData(data)
            IN /\ decoded' = decoded + 1
               /\ IF cancelled
                  THEN /\ ssePc' = "closebody"
                       /\ exitPath' = "cancel at line"
                       /\ UNCHANGED <<sseHold, stopAt>>
                  ELSE /\ sseHold' = [chunk |-> res[1], stop |-> res[2]]
                       /\ stopAt' = IF res[2] THEN idx ELSE stopAt
                       /\ ssePc' = "send"
                       /\ UNCHANGED exitPath
       ELSE IF cancelled
       THEN /\ ssePc' = "closebody"
            /\ exitPath' = "cancel at line"
            /\ UNCHANGED <<sseHold, decoded, stopAt>>
       ELSE /\ ssePc' = "scan"
            /\ UNCHANGED <<sseHold, decoded, stopAt, exitPath>>
    /\ UNCHANGED <<idx, scanErr, sseCh, sseChCloses>>
    /\ UNCHANGED <<mode, source, bodyCloses, lateSends>>
    /\ UNCHANGED fwdVars
    /\ UNCHANGED callerVars
    /\ UNCHANGED partial
    /\ UNCHANGED reqVars
    /\ UNCHANGED hostVars
    /\ UNCHANGED composeVars

\* select { case <-ctx.Done(): return; default: } and the line's dispatch
SSECheck ==
    /\ ssePc = "check"
    /\ IF cancelled
       THEN /\ ssePc' = "closebody"
            /\ exitPath' = "cancel at line"
            /\ UNCHANGED <<sseHold, decoded, stopAt>>
       ELSE LET line == CurLine IN
            IF line = BlankLine
            THEN /\ ssePc' = "scan"
                 /\ UNCHANGED <<sseHold, decoded, stopAt, exitPath>>
            ELSE IF HasPrefix(line, CommentPrefix)
            THEN /\ ssePc' = "scan"
                 /\ UNCHANGED <<sseHold, decoded, stopAt, exitPath>>
            ELSE IF HasPrefix(line, DataPrefix)
            THEN LET data == PayloadOf(line)
                     res == onData(data)
                 IN /\ sseHold' = [chunk |-> res[1], stop |-> res[2]]
                    /\ decoded' = decoded + 1
                    /\ stopAt' = IF res[2] THEN idx ELSE stopAt
                    /\ ssePc' = "send"
                    /\ UNCHANGED exitPath
            ELSE /\ ssePc' = "scan"
                 /\ UNCHANGED <<sseHold, decoded, stopAt, exitPath>>
    /\ UNCHANGED <<idx, scanErr, sseCh, sseChCloses>>
    /\ UNCHANGED <<mode, source, bodyCloses, lateSends>>
    /\ UNCHANGED fwdVars
    /\ UNCHANGED callerVars
    /\ UNCHANGED partial
    /\ UNCHANGED reqVars
    /\ UNCHANGED hostVars
    /\ UNCHANGED composeVars


\* the send case without the return on stop
SSESendIgnoresStop ==
    /\ ssePc = "send"
    /\ Len(sseCh) < SSEChanCap
    /\ sseCh' = Append(sseCh, sseHold.chunk)
    /\ lateSends' = IF sseChCloses > 0 THEN lateSends + 1 ELSE lateSends
    /\ ssePc' = "scan"
    /\ UNCHANGED exitPath
    /\ sseHold' = NoHold
    /\ UNCHANGED <<idx, scanErr, sseChCloses, decoded, stopAt>>
    /\ UNCHANGED <<mode, source, bodyCloses>>
    /\ UNCHANGED fwdVars
    /\ UNCHANGED callerVars
    /\ UNCHANGED partial
    /\ UNCHANGED reqVars
    /\ UNCHANGED hostVars
    /\ UNCHANGED composeVars

\* a send that gives the chunk up when the buffer is full
SSESendOrDrop ==
    /\ ssePc = "send"
    /\ sseCh' = IF Len(sseCh) < SSEChanCap THEN Append(sseCh, sseHold.chunk)
                ELSE sseCh
    /\ lateSends' = IF sseChCloses > 0 THEN lateSends + 1 ELSE lateSends
    /\ ssePc' = IF sseHold.stop THEN "closebody" ELSE "scan"
    /\ exitPath' = IF sseHold.stop THEN "stop" ELSE exitPath
    /\ sseHold' = NoHold
    /\ UNCHANGED <<idx, scanErr, sseChCloses, decoded, stopAt>>
    /\ UNCHANGED <<mode, source, bodyCloses>>
    /\ UNCHANGED fwdVars
    /\ UNCHANGED callerVars
    /\ UNCHANGED partial
    /\ UNCHANGED reqVars
    /\ UNCHANGED hostVars
    /\ UNCHANGED composeVars

\* the send on a channel that always has room
SSESendUnbounded ==
    /\ ssePc = "send"
    /\ sseCh' = Append(sseCh, sseHold.chunk)
    /\ lateSends' = IF sseChCloses > 0 THEN lateSends + 1 ELSE lateSends
    /\ ssePc' = IF sseHold.stop THEN "closebody" ELSE "scan"
    /\ exitPath' = IF sseHold.stop THEN "stop" ELSE exitPath
    /\ sseHold' = NoHold
    /\ UNCHANGED <<idx, scanErr, sseChCloses, decoded, stopAt>>
    /\ UNCHANGED <<mode, source, bodyCloses>>
    /\ UNCHANGED fwdVars
    /\ UNCHANGED callerVars
    /\ UNCHANGED partial
    /\ UNCHANGED reqVars
    /\ UNCHANGED hostVars
    /\ UNCHANGED composeVars

\* the send that leaves out a chunk with nothing in it
SSESendFiltered ==
    /\ ssePc = "send"
    /\ Len(sseCh) < SSEChanCap
    /\ sseCh' = IF sseHold.chunk = ZeroChunk THEN sseCh
                ELSE Append(sseCh, sseHold.chunk)
    /\ lateSends' = IF sseChCloses > 0 THEN lateSends + 1 ELSE lateSends
    /\ ssePc' = IF sseHold.stop THEN "closebody" ELSE "scan"
    /\ exitPath' = IF sseHold.stop THEN "stop" ELSE exitPath
    /\ sseHold' = NoHold
    /\ UNCHANGED <<idx, scanErr, sseChCloses, decoded, stopAt>>
    /\ UNCHANGED <<mode, source, bodyCloses>>
    /\ UNCHANGED fwdVars
    /\ UNCHANGED callerVars
    /\ UNCHANGED partial
    /\ UNCHANGED reqVars
    /\ UNCHANGED hostVars
    /\ UNCHANGED composeVars

\* select { case ch <- chunk: ; case <-ctx.Done(): return }, the send case,
\* then if stop { return }
SSESend ==
    /\ ssePc = "send"
    /\ Len(sseCh) < SSEChanCap
    /\ sseCh' = Append(sseCh, sseHold.chunk)
    /\ lateSends' = IF sseChCloses > 0 THEN lateSends + 1 ELSE lateSends
    /\ ssePc' = IF sseHold.stop THEN "closebody" ELSE "scan"
    /\ exitPath' = IF sseHold.stop THEN "stop" ELSE exitPath
    /\ sseHold' = NoHold
    /\ UNCHANGED <<idx, scanErr, sseChCloses, decoded, stopAt>>
    /\ UNCHANGED <<mode, source, bodyCloses>>
    /\ UNCHANGED fwdVars
    /\ UNCHANGED callerVars
    /\ UNCHANGED partial
    /\ UNCHANGED reqVars
    /\ UNCHANGED hostVars
    /\ UNCHANGED composeVars

\* a plain send, with no ctx.Done() case to leave it by
SSESendCancelledNever ==
    /\ FALSE
    /\ UNCHANGED vars

\* the ctx.Done() case with the body closed at the end of the loop only
SSESendCancelledNoClose ==
    /\ ssePc = "send"
    /\ cancelled
    /\ ssePc' = "closech"
    /\ exitPath' = "cancel at send"
    /\ sseHold' = NoHold
    /\ UNCHANGED <<idx, scanErr, sseCh, sseChCloses, decoded, stopAt>>
    /\ UNCHANGED <<mode, source, bodyCloses, lateSends>>
    /\ UNCHANGED fwdVars
    /\ UNCHANGED callerVars
    /\ UNCHANGED partial
    /\ UNCHANGED reqVars
    /\ UNCHANGED hostVars
    /\ UNCHANGED composeVars

\* the same select, the ctx.Done() case
SSESendCancelled ==
    /\ ssePc = "send"
    /\ cancelled
    /\ ssePc' = "closebody"
    /\ exitPath' = "cancel at send"
    /\ sseHold' = NoHold
    /\ UNCHANGED <<idx, scanErr, sseCh, sseChCloses, decoded, stopAt>>
    /\ UNCHANGED <<mode, source, bodyCloses, lateSends>>
    /\ UNCHANGED fwdVars
    /\ UNCHANGED callerVars
    /\ UNCHANGED partial
    /\ UNCHANGED reqVars
    /\ UNCHANGED hostVars
    /\ UNCHANGED composeVars

\* the read error chunk ParseSSE publishes after the loop
ReadErrorChunk == StreamChunk("", FALSE, <<"read error">>)

\* select { case ch <- StreamChunk{Error: err}: ; case <-ctx.Done(): }, the send case
SSEErrSend ==
    /\ ssePc = "errsend"
    /\ Len(sseCh) < SSEChanCap
    /\ sseCh' = Append(sseCh, ReadErrorChunk)
    /\ lateSends' = IF sseChCloses > 0 THEN lateSends + 1 ELSE lateSends
    /\ ssePc' = "closebody"
    /\ exitPath' = "read error"
    /\ UNCHANGED <<idx, scanErr, sseHold, sseChCloses, decoded, stopAt>>
    /\ UNCHANGED <<mode, source, bodyCloses>>
    /\ UNCHANGED fwdVars
    /\ UNCHANGED callerVars
    /\ UNCHANGED partial
    /\ UNCHANGED reqVars
    /\ UNCHANGED hostVars
    /\ UNCHANGED composeVars

\* the same select, the ctx.Done() case
SSEErrSkip ==
    /\ ssePc = "errsend"
    /\ cancelled
    /\ ssePc' = "closebody"
    /\ exitPath' = "read error, cancelled"
    /\ UNCHANGED <<idx, scanErr, sseHold, sseCh, sseChCloses, decoded, stopAt>>
    /\ UNCHANGED <<mode, source, bodyCloses, lateSends>>
    /\ UNCHANGED fwdVars
    /\ UNCHANGED callerVars
    /\ UNCHANGED partial
    /\ UNCHANGED reqVars
    /\ UNCHANGED hostVars
    /\ UNCHANGED composeVars

\* the cleanup without the deferred body.Close()
SSECloseBodySkipped ==
    /\ ssePc = "closebody"
    /\ UNCHANGED bodyCloses
    /\ ssePc' = "closech"
    /\ UNCHANGED <<idx, scanErr, sseHold, sseCh, sseChCloses, decoded, stopAt, exitPath>>
    /\ UNCHANGED <<mode, source, lateSends>>
    /\ UNCHANGED fwdVars
    /\ UNCHANGED callerVars
    /\ UNCHANGED partial
    /\ UNCHANGED reqVars
    /\ UNCHANGED hostVars
    /\ UNCHANGED composeVars

\* defer body.Close(), the first deferred call to run
SSECloseBody ==
    /\ ssePc = "closebody"
    /\ bodyCloses' = [bodyCloses EXCEPT !.extractor = @ + 1]
    /\ ssePc' = "closech"
    /\ UNCHANGED <<idx, scanErr, sseHold, sseCh, sseChCloses, decoded, stopAt, exitPath>>
    /\ UNCHANGED <<mode, source, lateSends>>
    /\ UNCHANGED fwdVars
    /\ UNCHANGED callerVars
    /\ UNCHANGED partial
    /\ UNCHANGED reqVars
    /\ UNCHANGED hostVars
    /\ UNCHANGED composeVars

\* the goroutine ending without closing its channel
SSECloseChNever ==
    /\ ssePc = "closech"
    /\ UNCHANGED sseChCloses
    /\ ssePc' = "done"
    /\ UNCHANGED <<idx, scanErr, sseHold, sseCh, decoded, stopAt, exitPath>>
    /\ UNCHANGED <<mode, source, bodyCloses, lateSends>>
    /\ UNCHANGED fwdVars
    /\ UNCHANGED callerVars
    /\ UNCHANGED partial
    /\ UNCHANGED reqVars
    /\ UNCHANGED hostVars
    /\ UNCHANGED composeVars

\* defer close(ch), the last deferred call to run; the goroutine ends
SSECloseCh ==
    /\ ssePc = "closech"
    /\ sseChCloses' = sseChCloses + 1
    /\ ssePc' = "done"
    /\ UNCHANGED <<idx, scanErr, sseHold, sseCh, decoded, stopAt, exitPath>>
    /\ UNCHANGED <<mode, source, bodyCloses, lateSends>>
    /\ UNCHANGED fwdVars
    /\ UNCHANGED callerVars
    /\ UNCHANGED partial
    /\ UNCHANGED reqVars
    /\ UNCHANGED hostVars
    /\ UNCHANGED composeVars

(* --------------- claudeProvider.Stream's forwarding goroutine ---------- *)

\* sseChannel := ParseSSE(ctx, resp.Body, ...): the extractor goroutine starts
FwdStart ==
    /\ fwdPc = "start"
    /\ ssePc = "idle"
    /\ ssePc' = "scan"
    /\ fwdPc' = "recv"
    /\ UNCHANGED <<idx, scanErr, sseHold, sseCh, sseChCloses, decoded, stopAt, exitPath>>
    /\ UNCHANGED <<fwdHold, outCh, outChCloses>>
    /\ UNCHANGED <<mode, source, bodyCloses, lateSends>>
    /\ UNCHANGED callerVars
    /\ UNCHANGED partial
    /\ UNCHANGED reqVars
    /\ UNCHANGED hostVars
    /\ UNCHANGED composeVars

\* a filter that lets every chunk cross
ForwardedAll(chunk) == TRUE

\* chunk.Content != "" || chunk.Done || chunk.Error != nil
Forwarded(chunk) == chunk.Content # "" \/ chunk.Done \/ chunk.Error # NoError

\* for chunk := range sseChannel: one receive, and the filter
FwdRecv ==
    /\ fwdPc = "recv"
    /\ \/ /\ Len(sseCh) > 0
          /\ sseCh' = Tail(sseCh)
          /\ IF Forwarded(Head(sseCh))
             THEN /\ fwdHold' = Head(sseCh)
                  /\ fwdPc' = "send"
             ELSE UNCHANGED <<fwdHold, fwdPc>>
       \/ /\ Len(sseCh) = 0
          /\ sseChCloses > 0
          /\ fwdPc' = "closebody"
          /\ UNCHANGED <<sseCh, fwdHold>>
    /\ UNCHANGED <<ssePc, idx, scanErr, sseHold, sseChCloses, decoded, stopAt, exitPath>>
    /\ UNCHANGED <<outCh, outChCloses>>
    /\ UNCHANGED <<mode, source, bodyCloses, lateSends>>
    /\ UNCHANGED callerVars
    /\ UNCHANGED partial
    /\ UNCHANGED reqVars
    /\ UNCHANGED hostVars
    /\ UNCHANGED composeVars

\* select { case ch <- chunk: ; case <-ctx.Done(): return }, the send case
FwdSend ==
    /\ fwdPc = "send"
    /\ Len(outCh) < OutChanCap
    /\ outCh' = Append(outCh, fwdHold)
    /\ lateSends' = IF outChCloses > 0 THEN lateSends + 1 ELSE lateSends
    /\ fwdPc' = "recv"
    /\ fwdHold' = ZeroChunk
    /\ UNCHANGED outChCloses
    /\ UNCHANGED sseVars
    /\ UNCHANGED <<mode, source, bodyCloses>>
    /\ UNCHANGED callerVars
    /\ UNCHANGED reqVars
    /\ UNCHANGED hostVars
    /\ UNCHANGED composeVars

\* the same select, the ctx.Done() case
FwdSendCancelled ==
    /\ fwdPc = "send"
    /\ cancelled
    /\ fwdPc' = "closebody"
    /\ fwdHold' = ZeroChunk
    /\ UNCHANGED <<outCh, outChCloses>>
    /\ UNCHANGED sseVars
    /\ UNCHANGED <<mode, source, bodyCloses, lateSends>>
    /\ UNCHANGED callerVars
    /\ UNCHANGED reqVars
    /\ UNCHANGED hostVars
    /\ UNCHANGED composeVars

\* defer resp.Body.Close(), the first deferred call to run
FwdCloseBody ==
    /\ fwdPc = "closebody"
    /\ bodyCloses' = [bodyCloses EXCEPT !.forwarder = @ + 1]
    /\ fwdPc' = "closech"
    /\ UNCHANGED <<fwdHold, outCh, outChCloses>>
    /\ UNCHANGED sseVars
    /\ UNCHANGED <<mode, source, lateSends>>
    /\ UNCHANGED callerVars
    /\ UNCHANGED reqVars
    /\ UNCHANGED hostVars
    /\ UNCHANGED composeVars

\* a forwarder that closes the channel it ranges over as well as its own
FwdCloseChBoth ==
    /\ fwdPc = "closech"
    /\ outChCloses' = outChCloses + 1
    /\ sseChCloses' = sseChCloses + 1
    /\ fwdPc' = "done"
    /\ UNCHANGED <<fwdHold, outCh>>
    /\ UNCHANGED <<ssePc, idx, scanErr, sseHold, sseCh, decoded, stopAt, exitPath>>
    /\ UNCHANGED <<mode, source, bodyCloses, lateSends>>
    /\ UNCHANGED callerVars
    /\ UNCHANGED partial
    /\ UNCHANGED reqVars
    /\ UNCHANGED hostVars
    /\ UNCHANGED composeVars

\* defer close(ch), the last deferred call to run; the goroutine ends
FwdCloseCh ==
    /\ fwdPc = "closech"
    /\ outChCloses' = outChCloses + 1
    /\ fwdPc' = "done"
    /\ UNCHANGED <<fwdHold, outCh>>
    /\ UNCHANGED sseVars
    /\ UNCHANGED <<mode, source, bodyCloses, lateSends>>
    /\ UNCHANGED callerVars
    /\ UNCHANGED reqVars
    /\ UNCHANGED hostVars
    /\ UNCHANGED composeVars

(* ------------------------------- caller -------------------------------- *)

\* the channel Stream returned
UserCh == IF mode = "claude" THEN outCh ELSE sseCh
UserChCloses == IF mode = "claude" THEN outChCloses ELSE sseChCloses

\* chunk := <-ch, a chunk is buffered
CallerRecv ==
    /\ ~sawClosed
    /\ Len(UserCh) > 0
    /\ received' = Append(received, Head(UserCh))
    /\ IF mode = "claude"
       THEN outCh' = Tail(outCh) /\ UNCHANGED sseCh
       ELSE sseCh' = Tail(sseCh) /\ UNCHANGED outCh
    /\ UNCHANGED <<sawClosed, recvAtCancel, cancelled>>
    /\ UNCHANGED <<ssePc, idx, scanErr, sseHold, sseChCloses, decoded, stopAt, exitPath>>
    /\ UNCHANGED <<fwdPc, fwdHold, outChCloses>>
    /\ UNCHANGED <<mode, source, bodyCloses, lateSends>>
    /\ UNCHANGED partial
    /\ UNCHANGED reqVars
    /\ UNCHANGED hostVars
    /\ UNCHANGED composeVars

\* chunk, ok := <-ch with ok = false: the channel is closed and drained
CallerSeeClosed ==
    /\ ~sawClosed
    /\ Len(UserCh) = 0
    /\ UserChCloses > 0
    /\ sawClosed' = TRUE
    /\ UNCHANGED <<received, recvAtCancel, cancelled>>
    /\ UNCHANGED sseVars
    /\ UNCHANGED fwdVars
    /\ UNCHANGED <<mode, source, bodyCloses, lateSends>>
    /\ UNCHANGED reqVars
    /\ UNCHANGED hostVars
    /\ UNCHANGED composeVars

\* cancel(), by a caller that holds a stream
Cancel ==
    /\ HasStream
    /\ ~cancelled
    /\ cancelled' = TRUE
    /\ recvAtCancel' = Len(received)
    /\ UNCHANGED <<received, sawClosed>>
    /\ UNCHANGED sseVars
    /\ UNCHANGED fwdVars
    /\ UNCHANGED <<mode, source, bodyCloses, lateSends>>
    /\ UNCHANGED reqVars
    /\ UNCHANGED hostVars
    /\ UNCHANGED composeVars

(* ---------------------------- specification ---------------------------- *)

SSENext ==
    \/ SSEScan
    \/ SSECheck
    \/ SSESend
    \/ SSESendCancelled
    \/ SSEErrSend
    \/ SSEErrSkip
    \/ SSECloseBody
    \/ SSECloseCh

FwdNext ==
    \/ FwdStart
    \/ FwdRecv
    \/ FwdSend
    \/ FwdSendCancelled
    \/ FwdCloseBody
    \/ FwdCloseCh

CallerNext ==
    \/ CallerRecv
    \/ CallerSeeClosed
    \/ Cancel

Next == Stream \/ SSENext \/ FwdNext \/ CallerNext

Spec == Init /\ [][Next]_vars

TypeOK ==
    /\ mode \in {"claude", "openai"}
    /\ cancelled \in BOOLEAN
    /\ ssePc \in {"idle", "scan", "check", "send", "errsend", "closebody", "closech", "done"}
    /\ fwdPc \in {"none", "start", "recv", "send", "closebody", "closech", "done"}
    /\ idx \in 0..Len(source)
    /\ Len(sseCh) <= SSEChanCap
    /\ Len(outCh) <= OutChanCap
    /\ exitPath \in {"", "exhausted", "stop", "cancel at line", "cancel at send",
                     "read error", "read error, cancelled"}
    /\ (exitPath # "") = (ssePc \in {"closebody", "closech", "done"})
    /\ streamPc \in {"call", "returned"}
    /\ status \in {0} \cup Statuses
    /\ (partial # <<>>) => scanErr


(* ------------------------------ helpers -------------------------------- *)

Last(seq) == seq[Len(seq)]

\* the ParseSSE goroutine has returned and runs, or has run, its deferred calls
SSEReturned == ssePc \in {"closebody", "closech", "done"}

\* every goroutine of the stream has finished
PipelineDone ==
    /\ ssePc = "done"
    /\ mode = "claude" => fwdPc = "done"

TotalBodyCloses == bodyCloses.extractor + bodyCloses.forwarder + bodyCloses.stream

(* -------------------------------- C1 ----------------------------------- *)

\* C1: once the caller has received a chunk with Done=true or a non-nil
\* Error, it receives no further chunk: a terminal chunk is the last one
\* received, and nothing is buffered or held for the caller after it.
C1_TerminalChunkIsLast ==
    /\ \A i \in 1..Len(received) : IsTerminal(received[i]) => i = Len(received)
    /\ (received # <<>> /\ IsTerminal(Last(received))) =>
          /\ UserCh = <<>>
          /\ sseCh = <<>>
          /\ fwdPc # "send"
          /\ SSEReturned

C1_Witness ==
    /\ Len(received) >= 2
    /\ IsTerminal(Last(received))
    /\ sawClosed

(* -------------------------------- C2 ----------------------------------- *)

\* C2: the ParseSSE goroutine invokes body.Close exactly once by the time it
\* has finished, on each of its returns, and never a second time; when
\* ParseSSE is the whole pipeline these are all the Close calls there are.
C2_ExtractorClosesBodyOnce ==
    /\ bodyCloses.extractor <= 1
    /\ ssePc \in {"closech", "done"} => bodyCloses.extractor = 1
    /\ ssePc \notin {"closech", "done"} => bodyCloses.extractor = 0
    /\ (mode = "openai" /\ HasStream) => TotalBodyCloses = bodyCloses.extractor

C2_Witness ==
    /\ ssePc = "done"
    /\ exitPath = "cancel at send"
    /\ bodyCloses.extractor = 1

(* -------------------------------- C3 ----------------------------------- *)

\* C3: over a stream's lifetime the response body is closed exactly once in
\* total, by the extractor alone, for both providers.
C3_BodyClosedOnceInTotal ==
    /\ TotalBodyCloses <= 1
    /\ bodyCloses.forwarder = 0
    /\ PipelineDone => TotalBodyCloses = 1

(* -------------------------------- C4 ----------------------------------- *)

\* C4: each output channel is closed exactly once, by its own producer
\* goroutine as that goroutine's last step, and no send is attempted on a
\* closed channel.
C4_ChannelsClosedOnce ==
    /\ lateSends = 0
    /\ sseChCloses = (IF ssePc = "done" THEN 1 ELSE 0)
    /\ outChCloses = (IF fwdPc = "done" THEN 1 ELSE 0)

C4_Witness ==
    /\ mode = "claude"
    /\ ssePc = "done"
    /\ fwdPc = "done"
    /\ cancelled
    /\ sseChCloses = 1
    /\ outChCloses = 1
    /\ Len(received) >= 1


(* ------------------------- fair specifications ------------------------- *)

InitLive == InitWith(ClaudeSources(MaxLiveLines), OpenAISources(MaxLiveLines))

\* the goroutines are scheduled and a read in progress returns; the caller
\* may stop receiving
SpecLive ==
    /\ InitLive
    /\ [][Next]_vars
    /\ WF_vars(Stream)
    /\ WF_vars(SSENext)
    /\ WF_vars(FwdNext)

\* as SpecLive, with a caller that receives until the channel closes
SpecDrain ==
    /\ InitLive
    /\ [][Next]_vars
    /\ WF_vars(Stream)
    /\ WF_vars(SSENext)
    /\ WF_vars(FwdNext)
    /\ WF_vars(CallerRecv)
    /\ WF_vars(CallerSeeClosed)

(* -------------------------------- C5 ----------------------------------- *)

\* C5: once the caller has cancelled the context, the channel returned to
\* the caller is eventually closed, whether or not the caller receives, for
\* ParseSSE alone and for the extractor plus forwarder pipeline.
C5_CancelEventuallyCloses == cancelled ~> (UserChCloses > 0)

C5_Witness ==
    /\ cancelled
    /\ UserChCloses = 1
    /\ idx < Len(source)
    /\ received = <<>>
    /\ exitPath = "cancel at send"

(* -------------------------------- C6 ----------------------------------- *)

\* C6: after the caller cancels, it receives at most one further chunk from
\* the ParseSSE channel.
C6_AtMostOneAfterCancel ==
    (mode = "openai" /\ cancelled) => Len(received) - recvAtCancel <= 1

(* -------------------------------- C7 ----------------------------------- *)

\* C7: ParseSSE over N >= 5 data records with a callback that never stops:
\* a caller that receives the first chunk and then cancels receives
\* strictly fewer than N chunks in total.
C7_RegressionFewerThanN ==
    (mode = "openai" /\ source \in OpenAIRegressions /\ recvAtCancel = 1)
        => Len(received) < Len(source)

C7_Witness ==
    /\ mode = "openai"
    /\ source = RegressionSource("odelta_a", RegressionN)
    /\ recvAtCancel = 1
    /\ Len(received) = 3
    /\ sawClosed

(* -------------------------------- C8 ----------------------------------- *)

\* C8: the event-typed provider's stream over 5 content_block_delta records
\* with non-empty text, all of them read: a caller that receives the first
\* chunk and then cancels receives strictly fewer than 5 chunks in total.
C8_ClaudeRegressionFewerThan5 ==
    (mode = "claude" /\ source = RegressionSource("cdelta_a", RegressionN)
        /\ ~scanErr /\ recvAtCancel = 1)
        => Len(received) < RegressionN


(* -------------------------------- C9 ----------------------------------- *)

\* the chunk the callback returned with its stop decision
StopChunk == onData(PayloadOf(LineAt(stopAt)))[1]

\* data lines among the first n lines of the source
DataLinesUpTo(n) == Cardinality({i \in 1..n : HasPrefix(LineAt(i), DataPrefix)})

\* chunks on their way to the caller, oldest first
Pending ==
    IF mode = "claude"
    THEN outCh \o (IF fwdPc = "send" THEN <<fwdHold>> ELSE <<>>)
               \o SelectSeq(sseCh, Forwarded)
    ELSE sseCh

C9_StopState ==
    stopAt > 0 =>
        /\ idx = stopAt
        /\ decoded = DataLinesUpTo(stopAt)
        /\ ssePc = "send" \/ SSEReturned
        /\ ~cancelled =>
              /\ ssePc = "send" => (sseHold.stop /\ sseHold.chunk = StopChunk)
              /\ SSEReturned =>
                    /\ exitPath = "stop"
                    /\ Last(received \o Pending) = StopChunk
              /\ sawClosed => Last(received) = StopChunk

C9_StopReached ==
    /\ stopAt > 0
    /\ sawClosed
    /\ received # <<>>
    /\ Last(received) = StopChunk

\* C9: when the callback returns stop=true for a data line and the context
\* is not cancelled, the chunk returned with that decision is published and
\* is the last chunk delivered, the channel is then closed, and the callback
\* is not invoked for any later line (no later line is even read).
C9_StopDeliversOwnChunkThenCloses ==
    /\ []C9_StopState
    /\ (stopAt > 0) ~> (cancelled \/ C9_StopReached)

C9_Witness ==
    /\ ~cancelled
    /\ C9_StopReached
    /\ stopAt < Len(source)
    /\ HasPrefix(source[Len(source)], DataPrefix)
    /\ decoded = 1
    /\ ssePc = "done"

(* -------------------------------- C10 ---------------------------------- *)

RECURSIVE ExpectedFrom(_, _)
\* the callback's results for the data lines from line i on, up to and
\* including the first that says stop
ExpectedFrom(src, i) ==
    IF i > Len(src) THEN <<>>
    ELSE IF HasPrefix(src[i], DataPrefix)
    THEN LET res == onData(PayloadOf(src[i]))
         IN <<res[1]>> \o (IF res[2] THEN <<>> ELSE ExpectedFrom(src, i + 1))
    ELSE ExpectedFrom(src, i + 1)

Expected == ExpectedFrom(source, 1)

\* what reaches the caller of the provider's Stream
ExpectedAtCaller ==
    IF mode = "claude" THEN SelectSeq(Expected, Forwarded) ELSE Expected

IsPrefix(a, b) == Len(a) <= Len(b) /\ SubSeq(b, 1, Len(a)) = a

\* C10: with no cancellation (and no read failure) the chunks delivered are,
\* in order, the callback's results for the source's data lines up to and
\* including the first stop: a prefix of them while the stream runs, all of
\* them once the caller has seen the channel closed; through the forwarder,
\* those of them that it forwards.
C10_DeliveredInSourceOrder ==
    (~cancelled /\ ~scanErr) =>
        /\ IsPrefix(received \o Pending, ExpectedAtCaller)
        /\ sawClosed => received = ExpectedAtCaller

C10_Witness ==
    /\ mode = "openai"
    /\ ~cancelled
    /\ ~scanErr
    /\ sawClosed
    /\ Len(received) = 3
    /\ received[1] # received[2]
    /\ received = Expected

(* -------------------------------- C12 ---------------------------------- *)

\* what of a sequence of the callback's chunks reaches the caller
AtCaller(chunks) == IF mode = "claude" THEN SelectSeq(chunks, Forwarded) ELSE chunks

\* the lines read whole before the read failed
WholeLines == SubSeq(source, 1, IF partial # <<>> THEN idx - 1 ELSE idx)

\* C12: if reading the source fails mid-stream and the context is never
\* cancelled, a caller that has received until the close has got every chunk
\* decoded before the failure and then exactly one chunk whose Error is the
\* read error, and nothing else.
C12_ReadErrorSurfaced ==
    (scanErr /\ ~cancelled /\ sawClosed) =>
        received = AtCaller(ExpectedFrom(WholeLines, 1)) \o <<ReadErrorChunk>>

(* -------------------------------- C11 ---------------------------------- *)

\* largest number of lines of the framing sources
MaxFrameLines == 3

\* "data:" not followed by a space
NoSpaceLine == <<"d", "a", "t", "a", ":", "x">>

\* blank lines, comments, other fields and lines that only resemble data
\* lines, around data lines
ClaudeFrameLines ==
    {BlankLine, CommentLine, FieldLine, NoSpaceLine,
     DataLine("cdelta_a"), DataLine("cstop")}

OpenAIFrameLines ==
    {BlankLine, CommentLine, FieldLine, NoSpaceLine,
     DataLine("odelta_a"), DataLine("[DONE]")}

InitFrames ==
    InitWith(SeqsUpTo(ClaudeFrameLines, MaxFrameLines),
             SeqsUpTo(OpenAIFrameLines, MaxFrameLines))

SpecFrames == InitFrames /\ [][Next]_vars

\* strings.HasPrefix(line, "data: ")
IsDataLine(line) == HasPrefix(line, DataPrefix)

\* the source with every line that is not a data line removed
DataLinesOnly == SelectSeq(source, IsDataLine)

\* C11: blank lines, lines beginning with ":" and every other line without
\* the prefix "data: " never invoke the callback and never produce a chunk
\* (the callback has run once per data line read, and a chunk is held for
\* sending only while the current line is a data line), and they do not
\* change the chunks of the data lines around them: what is delivered is
\* what the source stripped of those lines delivers.
C11_IgnoredLinesProduceNothing ==
    /\ decoded <= DataLinesUpTo(idx)
    /\ ssePc = "scan" => decoded = DataLinesUpTo(idx)
    /\ ssePc = "send" => IsDataLine(CurLine)
    /\ (~cancelled /\ ~scanErr) =>
          /\ IsPrefix(received \o Pending, AtCaller(ExpectedFrom(DataLinesOnly, 1)))
          /\ sawClosed => received = AtCaller(ExpectedFrom(DataLinesOnly, 1))

C11_Witness ==
    /\ ~cancelled
    /\ ~scanErr
    /\ sawClosed
    /\ Len(source) = 3
    /\ source[1] = NoSpaceLine
    /\ IsDataLine(source[2])
    /\ source[3] \in {BlankLine, CommentLine, FieldLine}
    /\ idx = 3
    /\ decoded = 1
    /\ Len(received) = 1
    /\ ~IsTerminal(received[1])

(* -------------------------------- C13 ---------------------------------- *)

\* the caller has seen the channel closed on a stream that was not cancelled:
\* every goroutine has finished, nothing is left undelivered, and the way
\* ParseSSE returned shows in the last chunk delivered
C13_ClosedState ==
    (sawClosed /\ ~cancelled) =>
        /\ PipelineDone
        /\ Pending = <<>>
        /\ fwdPc # "send"
        /\ exitPath \in {"stop", "exhausted", "read error"}
        /\ exitPath = "exhausted" => \A i \in 1..Len(received) : ~IsTerminal(received[i])
        /\ exitPath = "stop" => (received # <<>> /\ Last(received) = StopChunk)
        /\ exitPath = "read error" => (received # <<>> /\ Last(received) = ReadErrorChunk)

\* C13: with no cancellation, a finite source and a caller that receives
\* until the close, the goroutines terminate and the caller eventually sees
\* the channel closed, after the last chunk has been delivered, whether the
\* stream ends by a stop decision, by exhaustion of the source (then without
\* a Done or error chunk) or by a read error.
C13_UncancelledStreamCloses ==
    /\ []C13_ClosedState
    /\ HasStream ~> (cancelled \/ sawClosed)

C13_Witness ==
    /\ ~cancelled
    /\ sawClosed
    /\ exitPath = "exhausted"
    /\ Len(source) = 2
    /\ Len(received) = 2
    /\ ssePc = "done"

(* -------------------------------- C14 ---------------------------------- *)

\* C14: back-pressure in ParseSSE, seen by the caller of its channel: the
\* payloads decoded exceed the chunks received by at most 2, one in the
\* channel's buffer slot and one held by the producer at its send; the
\* first send can complete before any receive, and no third payload is
\* decoded before the caller has received.
C14_BackPressure ==
    mode = "openai" =>
        /\ decoded - Len(received) <= 2
        /\ Len(sseCh) <= SSEChanCap
        /\ (ssePc = "send" /\ decoded = 1 /\ received = <<>>) => ENABLED SSESend
        /\ received = <<>> => decoded <= 2
        /\ (~cancelled /\ ~scanErr) =>
              decoded = Len(received) + Len(sseCh) + (IF ssePc = "send" THEN 1 ELSE 0)

C14_Witness ==
    /\ mode = "openai"
    /\ ~cancelled
    /\ received = <<>>
    /\ decoded = 2
    /\ ssePc = "send"
    /\ Len(sseCh) = SSEChanCap
    /\ idx < Len(source)
    /\ IsDataLine(source[idx + 1])

(* -------------------------------- C15 ---------------------------------- *)

\* C15: for both providers, when the response status is not a success
\* status, Stream returns no channel and an error that carries the status
\* code and the response body; no goroutine of the pipeline is started and
\* the body has been closed exactly once when Stream returns, and is never
\* closed again.
C15_ErrorStatusReturnsError ==
    (streamPc = "returned" /\ status # 0 /\ status \notin 200..299) =>
        /\ ~HasStream
        /\ retErr.kind = "API error"
        /\ retErr.status = status
        /\ retErr.body = source
        /\ ssePc = "idle"
        /\ fwdPc = "none"
        /\ bodyCloses = [extractor |-> 0, forwarder |-> 0, stream |-> 1]
        /\ UserCh = <<>>
        /\ UserChCloses = 0
        /\ received = <<>>

C15_Witness ==
    /\ streamPc = "returned"
    /\ status = 401
    /\ mode = "claude"
    /\ retErr = APIError(401, source)
    /\ Len(source) = 2
    /\ bodyCloses.stream = 1

(* -------------------------------- C16 ---------------------------------- *)

\* what Stream has returned: a channel and a nil error exactly when the
\* status is 200, otherwise the error of the step that failed and no
\* channel, with no goroutine started
C16_Returned ==
    streamPc = "returned" =>
        /\ HasStream <=> status = StatusOK
        /\ ~HasStream =>
              /\ \/ retErr.kind \in RequestFailures /\ status = 0
                 \/ retErr = APIError(status, source) /\ status # StatusOK
              /\ ssePc = "idle"
              /\ fwdPc = "none"
              /\ received = <<>>
              /\ UserChCloses = 0
        /\ (HasStream /\ scanErr /\ ~cancelled /\ sawClosed) =>
              (received # <<>> /\ Last(received).Error # NoError)

\* C16 (amended): Stream returns exactly one of a channel with a nil error
\* and no channel with an error; the immediate error is returned for a
\* failure to build or send the request and for every response status other
\* than 200, the other 2xx statuses included; for status 200 a channel is
\* returned, the return value never changes afterwards, and a later failure
\* reaches the caller as an error-bearing chunk only.
C16_ImmediateErrorOrChannel ==
    /\ []C16_Returned
    /\ [][streamPc = "returned" => UNCHANGED reqVars]_vars

C16_Witness ==
    /\ HasStream
    /\ status = StatusOK
    /\ scanErr
    /\ ~cancelled
    /\ sawClosed
    /\ Len(received) = 2
    /\ Last(received) = ReadErrorChunk

\* C16 as stated: for every 2xx response status a channel is returned with
\* a nil error.
C16_Every2xxReturnsChannel ==
    (streamPc = "returned" /\ status \in 200..299) => HasStream

(* -------------------------------- C17 ---------------------------------- *)

\* largest number of lines of the decoding sources
MaxDecodeLines == 2

\* one data line for each kind of payload the event-typed decoder
\* distinguishes
ClaudeDecodeLines ==
    {DataLine(tok) : tok \in {"cdelta_a", "cdelta_e", "cdelta_nt", "cdelta_nd",
                              "cstart", "cnotype", "cnull", "cstop", "cerror",
                              "cerror_nm", "carray", "{bad"}}

\* one data line for each kind of payload the delta-typed decoder
\* distinguishes
OpenAIDecodeLines ==
    {DataLine(tok) : tok \in {"odelta_a", "odelta_f", "odelta_nc", "ozero",
                              "[DONE]", "[DONE] ", "{bad"}}

InitDecode ==
    InitWith(SeqsUpTo(ClaudeDecodeLines, MaxDecodeLines),
             SeqsUpTo(OpenAIDecodeLines, MaxDecodeLines))

SpecDecode == InitDecode /\ [][Next]_vars

\* the payload the callback has just been called with
CurPayload == PayloadOf(CurLine)

\* C17: the event-typed decoder, for every payload it is called with: an
\* object of type content_block_delta with a string delta.text gives
\* Chunk{Content: text} and continue; type message_stop gives
\* Chunk{Done: true} and stop; type error gives a chunk whose Error carries
\* error.message, or "unknown error" when that is missing, and stop; any
\* other type gives no content and continue; a payload that does not parse
\* gives an error chunk and stop.
C17_EventDecoderTable ==
    (mode = "claude" /\ ssePc = "send") =>
        LET doc == Unmarshal(CurPayload)
            chunk == sseHold.chunk
            stop == sseHold.stop
        IN /\ (doc.ok /\ doc.type = "content_block_delta" /\ doc.hasDelta
                  /\ doc.text # Absent) =>
                 (chunk = StreamChunk(doc.text, FALSE, NoError) /\ ~stop)
           /\ (doc.ok /\ doc.type = "message_stop") =>
                 (chunk = StreamChunk("", TRUE, NoError) /\ stop)
           /\ (doc.ok /\ doc.type = "error") =>
                 /\ chunk.Error =
                       <<"API error: ",
                         IF doc.errmsg = Absent THEN "unknown error" ELSE doc.errmsg>>
                 /\ chunk.Content = ""
                 /\ ~chunk.Done
                 /\ stop
           /\ (doc.ok /\ doc.type \notin
                  {Absent, "content_block_delta", "message_stop", "error"}) =>
                 (chunk = ZeroChunk /\ ~stop)
           /\ ~doc.ok =>
                 /\ chunk.Error # NoError
                 /\ chunk.Content = ""
                 /\ ~chunk.Done
                 /\ stop

C17_Witness ==
    /\ mode = "claude"
    /\ ssePc = "send"
    /\ partial = <<>>
    /\ CurPayload = "cerror_nm"
    /\ sseHold.chunk.Error = <<"API error: ", "unknown error">>
    /\ sseHold.stop
    /\ idx = 2
    /\ decoded = 2

(* -------------------------------- C18 ---------------------------------- *)

\* a payload that unmarshals into an object but lacks the structure the
\* decoder looks for: no string type, an unknown type, or a
\* content_block_delta without an object delta or without a string text
IsMalformedEvent(data) ==
    LET doc == Unmarshal(data) IN
    /\ doc.ok
    /\ \/ doc.type = Absent
       \/ doc.type \notin {"content_block_delta", "message_stop", "error"}
       \/ doc.type = "content_block_delta" /\ (~doc.hasDelta \/ doc.text = Absent)

IsWellFormedLine(line) == ~(IsDataLine(line) /\ IsMalformedEvent(PayloadOf(line)))

\* the source with every data line of a malformed event removed
WellFormedLinesOnly == SelectSeq(source, IsWellFormedLine)

\* C18: in the event-typed stream a payload that parses but lacks the
\* expected structure is not an error: the decoder returns a chunk with no
\* error and no stop for it, nothing of it reaches the caller, and the
\* later events are decoded and delivered as if the payload had not been
\* there.
C18_MalformedEventsIgnored ==
    mode = "claude" =>
        /\ (ssePc = "send" /\ IsMalformedEvent(CurPayload)) =>
              /\ sseHold.chunk.Error = NoError
              /\ ~sseHold.chunk.Done
              /\ ~sseHold.stop
              /\ ~Forwarded(sseHold.chunk)
        /\ (~cancelled /\ ~scanErr) =>
              /\ IsPrefix(received \o Pending,
                          AtCaller(ExpectedFrom(WellFormedLinesOnly, 1)))
              /\ sawClosed => received = AtCaller(ExpectedFrom(WellFormedLinesOnly, 1))

C18_Witness ==
    /\ mode = "claude"
    /\ ~cancelled
    /\ ~scanErr
    /\ sawClosed
    /\ source = <<DataLine("cdelta_nt"), DataLine("cdelta_a")>>
    /\ decoded = 2
    /\ received = <<StreamChunk("a", FALSE, NoError)>>

(* -------------------------------- C20 ---------------------------------- *)

\* C20: the delta-typed decoder, for every payload it is called with: the
\* exact literal [DONE] gives Chunk{Done: true} and stop; an object with at
\* least one choice gives Chunk{Content: the first choice's delta.content,
\* "" if absent} with Done=false and continue, with or without a finish
\* reason; an object with no choice gives an empty chunk and continue; a
\* payload that does not parse gives an error chunk and stop.
C20_DeltaDecoderTable ==
    (mode = "openai" /\ ssePc = "send") =>
        LET doc == Unmarshal(CurPayload)
            chunk == sseHold.chunk
            stop == sseHold.stop
        IN IF CurPayload = "[DONE]"
           THEN chunk = StreamChunk("", TRUE, NoError) /\ stop
           ELSE /\ (doc.ok /\ doc.nchoices >= 1) =>
                      /\ chunk.Content = (IF doc.content = Absent THEN "" ELSE doc.content)
                      /\ ~chunk.Done
                      /\ chunk.Error = NoError
                      /\ ~stop
                /\ (doc.ok /\ doc.nchoices = 0) => (chunk = ZeroChunk /\ ~stop)
                /\ ~doc.ok =>
                      /\ chunk.Error # NoError
                      /\ chunk.Content = ""
                      /\ ~chunk.Done
                      /\ stop

C20_Witness ==
    /\ mode = "openai"
    /\ ssePc = "send"
    /\ partial = <<>>
    /\ CurPayload = "odelta_f"
    /\ Unmarshal(CurPayload).finish = "stop"
    /\ sseHold.chunk = StreamChunk("b", FALSE, NoError)
    /\ ~sseHold.stop
    /\ source = <<DataLine("odelta_nc"), DataLine("odelta_f")>>
    /\ received = <<ZeroChunk>>

(* -------------------------------- C19 ---------------------------------- *)

\* a content_block_delta event with a non-empty text
IsTextDelta(line) ==
    /\ IsDataLine(line)
    /\ LET doc == Unmarshal(PayloadOf(line))
       IN doc.ok /\ doc.type = "content_block_delta" /\ doc.hasDelta
             /\ doc.text \notin {Absent, ""}

\* an event of another kind, or a line that is no event at all
IsOtherEvent(line) ==
    \/ ~IsDataLine(line)
    \/ LET doc == Unmarshal(PayloadOf(line))
       IN doc.ok /\ doc.type \notin {Absent, "content_block_delta", "message_stop", "error"}

\* text deltas among events of other kinds, then message_stop
IsCompleteResponse ==
    /\ source # <<>>
    /\ Last(source) = DataLine("cstop")
    /\ \A i \in 1..(Len(source) - 1) : IsTextDelta(source[i]) \/ IsOtherEvent(source[i])

\* the text fragments of the response, in source order
TextChunks ==
    LET deltas == SelectSeq(source, IsTextDelta)
    IN [i \in 1..Len(deltas) |->
           StreamChunk(Unmarshal(PayloadOf(deltas[i])).text, FALSE, NoError)]

\* C19: the event-typed stream end to end, not cancelled: for n text deltas
\* among events of other kinds followed by message_stop, the caller
\* receives the n fragments in source order, with Done=false and no error,
\* and then one chunk with Done=true and empty content, n+1 chunks in all;
\* and every chunk that crosses to the caller has content, or Done, or an
\* Error.
C19_EventStreamEndToEnd ==
    mode = "claude" =>
        /\ \A i \in 1..Len(received) : Forwarded(received[i])
        /\ \A i \in 1..Len(outCh) : Forwarded(outCh[i])
        /\ (~cancelled /\ ~scanErr /\ IsCompleteResponse) =>
              /\ IsPrefix(received, TextChunks \o <<StreamChunk("", TRUE, NoError)>>)
              /\ sawClosed =>
                    /\ received = TextChunks \o <<StreamChunk("", TRUE, NoError)>>
                    /\ Len(received) = Len(SelectSeq(source, IsTextDelta)) + 1

C19_Witness ==
    /\ mode = "claude"
    /\ ~cancelled
    /\ ~scanErr
    /\ sawClosed
    /\ source = <<DataLine("cdelta_a"), DataLine("cstart"), DataLine("cstop")>>
    /\ received = <<StreamChunk("a", FALSE, NoError), StreamChunk("", TRUE, NoError)>>

(* -------------------------------- C21 ---------------------------------- *)

\* the sentinel line of the delta-typed stream
DoneLine == DataLine("[DONE]")

\* a data line whose payload unmarshals into parseChunk's response struct
IsDeltaLine(line) == IsDataLine(line) /\ Unmarshal(PayloadOf(line)).ok

\* the position of the first sentinel line, 0 if there is none
DonePos ==
    IF \E i \in 1..Len(source) : source[i] = DoneLine
    THEN CHOOSE i \in 1..Len(source) :
            source[i] = DoneLine /\ \A j \in 1..(i - 1) : source[j] # DoneLine
    ELSE 0

\* delta payloads, among lines that are no data lines, and then the sentinel
IsDeltaResponse ==
    /\ DonePos > 0
    /\ \A i \in 1..(DonePos - 1) : IsDeltaLine(source[i]) \/ ~IsDataLine(source[i])

\* Content of the first choice's delta, "" if there is none
DeltaContent(line) ==
    LET doc == Unmarshal(PayloadOf(line))
    IN IF doc.nchoices > 0 /\ doc.content # Absent THEN doc.content ELSE ""

\* the chunks of the delta payloads ahead of the sentinel, in source order
DeltaChunks ==
    LET deltas == SelectSeq(SubSeq(source, 1, DonePos - 1), IsDeltaLine)
    IN [i \in 1..Len(deltas) |-> StreamChunk(DeltaContent(deltas[i]), FALSE, NoError)]

\* C21: the delta-typed stream end to end, not cancelled: for k delta
\* payloads followed by [DONE] the caller receives the k chunks of the
\* deltas in source order, those with empty content included, then one chunk
\* with Done=true and empty content, k+1 chunks in all, and the channel
\* closes; no line after [DONE] is read or delivered.
C21_DeltaStreamEndToEnd ==
    (mode = "openai" /\ ~cancelled /\ ~scanErr /\ IsDeltaResponse) =>
        /\ idx <= DonePos
        /\ IsPrefix(received \o Pending, DeltaChunks \o <<StreamChunk("", TRUE, NoError)>>)
        /\ sawClosed =>
              /\ received = DeltaChunks \o <<StreamChunk("", TRUE, NoError)>>
              /\ Len(received) =
                    Cardinality({i \in 1..DonePos : IsDeltaLine(source[i])}) + 1

C21_Witness ==
    /\ mode = "openai"
    /\ ~cancelled
    /\ ~scanErr
    /\ sawClosed
    /\ source = <<DataLine("ozero"), DoneLine, DataLine("odelta_a")>>
    /\ received = <<ZeroChunk, StreamChunk("", TRUE, NoError)>>

(* -------------------------------- C22 ---------------------------------- *)

\* largest number of messages the caller passes
MaxMessages == 2

\* the messages a caller passes
ChatMessages ==
    {ChatMessage("user", "hi"), ChatMessage("assistant", "yo"),
     ChatMessage("system", "old")}

\* the system prompts a provider is configured with
SystemPrompts == {"", "be brief"}

\* Stream called with every message list and prompt, on an empty response
InitRequest ==
    /\ InitStream({<<>>}, {<<>>})
    /\ msgs \in SeqsUpTo(ChatMessages, MaxMessages)
    /\ systemPrompt \in SystemPrompts

NextRequest == Stream

SpecRequest == InitRequest /\ [][NextRequest]_vars

\* the request body Stream has built, by provider and prompt
C22_Built ==
    streamPc = "returned" =>
        /\ reqBody.built
        /\ reqBody.stream
        /\ mode = "openai" =>
              /\ reqBody.system = Absent
              /\ systemPrompt = "" => reqBody.messages = msgs
              /\ systemPrompt # "" =>
                    /\ Len(reqBody.messages) = Len(msgs) + 1
                    /\ reqBody.messages[1] = ChatMessage("system", systemPrompt)
                    /\ \A i \in 1..Len(msgs) : reqBody.messages[i + 1] = msgs[i]
        /\ mode = "claude" =>
              /\ reqBody.messages = msgs
              /\ systemPrompt = "" => reqBody.system = Absent
              /\ systemPrompt # "" => reqBody.system = systemPrompt

\* C22: the delta-typed provider serializes one {role: "system", content:
\* prompt} message followed by the caller's messages in their order when a
\* system prompt is configured, and exactly the caller's messages when it is
\* empty; the event-typed provider sends the caller's messages unchanged and
\* the prompt in the top-level field system, left out when the prompt is
\* empty; the caller's message list is not modified.
C22_SystemPromptPlacement ==
    /\ []C22_Built
    /\ [][msgs' = msgs]_vars

C22_Witness ==
    /\ streamPc = "returned"
    /\ mode = "openai"
    /\ systemPrompt = "be brief"
    /\ msgs = <<ChatMessage("system", "old"), ChatMessage("user", "hi")>>
    /\ reqBody.messages =
          <<ChatMessage("system", "be brief"), ChatMessage("system", "old"),
            ChatMessage("user", "hi")>>
    /\ status = StatusOK

(* -------------------------------- C23 ---------------------------------- *)

\* C23: if the context is already cancelled when the extractor attempts to
\* publish a decoded chunk, the chunk is not published and the extractor
\* stops at once, in every interleaving, also when the channel is ready to
\* accept the send: the extractor's step from its send leaves the channel as
\* it is and takes the cancellation return.
C23_NoPublishOnceCancelled ==
    [][(ssePc = "send" /\ cancelled /\ ssePc' # "send") =>
          (sseCh' = sseCh /\ ssePc' = "closebody" /\ exitPath' = "cancel at send")]_vars

(* -------------------------------- C24 ---------------------------------- *)

\* C24: if the context has already been cancelled when the extractor
\* detects a read failure, no error chunk is published, in every
\* interleaving, also when the buffer has a free slot: the extractor's step
\* from the check of scanner.Err() leaves the channel as it is.
C24_NoErrorChunkOnceCancelled ==
    [][(ssePc = "errsend" /\ cancelled /\ ssePc' # "errsend") =>
          (sseCh' = sseCh /\ exitPath' = "read error, cancelled")]_vars

(* -------------------------------- C25 ---------------------------------- *)

C26_ReleasePrecedesClose ==
    /\ sseChCloses > 0 => bodyCloses.extractor >= 1
    /\ outChCloses > 0 => bodyCloses.forwarder >= 1
    /\ UserChCloses > 0 => TotalBodyCloses >= 1
    /\ sawClosed => TotalBodyCloses >= 1

C26_Witness ==
    /\ mode = "claude"
    /\ sawClosed
    /\ cancelled
    /\ exitPath = "cancel at send"
    /\ bodyCloses.extractor = 1
    /\ bodyCloses.forwarder = 1

(* ------------------- the compose view's event loop --------------------- *)

\* everything of the llm package; the compose view sees a provider's stream
\* as a channel that delivers chunks and is then closed
llmVars ==
    <<mode, source, cancelled, ssePc, idx, scanErr, sseHold, sseCh,
      sseChCloses, fwdPc, fwdHold, outCh, outChCloses, bodyCloses,
      lateSends, decoded, stopAt, exitPath, received, sawClosed,
      recvAtCancel, partial, streamPc, status, retErr, reqBody, msgs,
      systemPrompt>>

\* the text chunks a provider's channel delivers
ContentChunk == StreamChunk("a", FALSE, NoError)
DoneChunk == StreamChunk("", TRUE, NoError)

\* what a provider's channel delivers before it is closed: text chunks,
\* then a Done chunk, an error chunk, or nothing when the body ends without
\* a terminal payload
ProviderChannels ==
    UNION {{body, Append(body, DoneChunk), Append(body, ReadErrorChunk)} :
              body \in UNION {[1..n -> {ContentChunk}] : n \in 0..(MaxChunks - 1)}}

\* streams an Enter has asked for
NumStreams == Cardinality({s \in StreamIds : streams[s].cmd # "none"})

\* Update, case StreamStartedMsg, StreamChunkMsg and StreamErrMsg
Update(m, msg) ==
    IF msg.type = "StreamStartedMsg"
    THEN [m EXCEPT !.cancelFn = msg.Cancel]
    ELSE IF msg.type = "StreamChunkMsg"
    THEN LET content == m.streamBuf \o msg.Content IN
         IF msg.Done
         THEN [m EXCEPT !.streaming = FALSE,
                        !.messages = Append(@, DisplayMessage("assistant", content)),
                        !.streamBuf = ""]
         ELSE [m EXCEPT !.streamBuf = content]
    ELSE IF msg.type = "StreamErrMsg"
    THEN [m EXCEPT !.streaming = FALSE, !.err = msg.Err, !.streamBuf = ""]
    ELSE m

\* a Done or error message
EndsStream(msg) ==
    msg.type = "StreamErrMsg" \/ (msg.type = "StreamChunkMsg" /\ msg.Done)

\* Update, case tea.KeyMsg, default: text typed into the textarea, which
\* the model takes only while it is not streaming
KeyRunes ==
    /\ ~compose.streaming
    /\ compose.textarea = ""
    /\ compose' = [compose EXCEPT !.textarea = "q"]
    /\ UNCHANGED <<streams, gen>>
    /\ UNCHANGED llmVars

\* Update, case tea.KeyEnter with text while not streaming: the user message
\* is appended and streamCmd is handed to the runtime (while streaming, or
\* with an empty textarea, the key only goes to the textarea)
KeyEnter ==
    /\ ~compose.streaming
    /\ compose.textarea # ""
    /\ NumStreams < MaxStreams
    /\ compose' = [compose EXCEPT
                      !.textarea = "",
                      !.messages = Append(@, DisplayMessage("user", compose.textarea)),
                      !.streaming = TRUE,
                      !.err = NoError]
    /\ streams' = [streams EXCEPT
                      ![NumStreams + 1] = [NoStream EXCEPT !.cmd = "queued", !.model = gen]]
    /\ UNCHANGED gen
    /\ UNCHANGED llmVars

\* Update, case tea.KeyEsc, tea.KeyCtrlC while streaming: cancelFn is called
\* if it is not nil, the buffered text becomes an assistant message (while
\* not streaming the key does nothing)
KeyEsc ==
    /\ compose.streaming
    /\ streams' = IF compose.cancelFn # 0
                  THEN [streams EXCEPT ![compose.cancelFn].ctxDone = TRUE]
                  ELSE streams
    /\ compose' = [compose EXCEPT
                      !.streaming = FALSE,
                      !.messages = IF compose.streamBuf # ""
                                   THEN Append(@, DisplayMessage("assistant", compose.streamBuf))
                                   ELSE @,
                      !.streamBuf = ""]
    /\ UNCHANGED gen
    /\ UNCHANGED llmVars

\* AppModel.Update, GlobalKeys.NewChat (ctrl+n): the compose model is
\* replaced by a new one; the streams of the old one are left running
NewChat ==
    /\ gen < MaxNewChats
    /\ compose' = New
    /\ gen' = gen + 1
    /\ UNCHANGED streams
    /\ UNCHANGED llmVars

\* the function streamCmd returns, run by the runtime in a goroutine: the
\* context is made and provider.Stream called; on an error the context is
\* cancelled and StreamErrMsg returned, else the forwarding goroutine is
\* started and StreamStartedMsg returned with the cancel function
streamCmd(s) ==
    /\ streams[s].cmd = "queued"
    /\ \/ streams' = [streams EXCEPT
                         ![s].cmd = "returned",
                         ![s].ctxDone = TRUE,
                         ![s].ret = StreamErrMsg(<<"API error">>)]
       \/ \E ch \in ProviderChannels :
             streams' = [streams EXCEPT
                            ![s].cmd = "returned",
                            ![s].ch = ch,
                            ![s].go = "range",
                            ![s].ret = StreamStartedMsg(s)]
    /\ UNCHANGED <<compose, gen>>
    /\ UNCHANGED llmVars

\* the runtime passes the command's message to AppModel.Update, which
\* delegates it to the compose model it holds at that moment
CmdDeliver(s) ==
    /\ streams[s].cmd = "returned"
    /\ compose' = Update(compose, streams[s].ret)
    /\ streams' = [streams EXCEPT
                      ![s].cmd = "delivered",
                      ![s].ended = @ \/ EndsStream(streams[s].ret)]
    /\ UNCHANGED gen
    /\ UNCHANGED llmVars

\* for chunk := range ch in streamCmd's goroutine: the next chunk becomes
\* the message to send; on a closed channel the loop ends and nothing is
\* sent
GoRange(s) ==
    /\ streams[s].go = "range"
    /\ IF streams[s].ch = <<>>
       THEN streams' = [streams EXCEPT ![s].go = "done"]
       ELSE LET chunk == Head(streams[s].ch) IN
            streams' = [streams EXCEPT
                           ![s].ch = Tail(@),
                           ![s].go = "send",
                           ![s].hold = IF chunk.Error # NoError
                                       THEN StreamErrMsg(chunk.Error)
                                       ELSE StreamChunkMsg(chunk.Content, chunk.Done)]
    /\ UNCHANGED <<compose, gen>>
    /\ UNCHANGED llmVars

\* p.Send hands the message to the event loop, which passes it to
\* AppModel.Update and so to the compose model it holds at that moment; the
\* goroutine returns after an error message and ranges on otherwise
GoSend(s) ==
    /\ streams[s].go = "send"
    /\ compose' = Update(compose, streams[s].hold)
    /\ streams' = [streams EXCEPT
                      ![s].go = IF streams[s].hold.type = "StreamErrMsg" THEN "done" ELSE "range",
                      ![s].hold = NoMsg,
                      ![s].ended = @ \/ EndsStream(streams[s].hold)]
    /\ UNCHANGED gen
    /\ UNCHANGED llmVars

\* the producer of a cancelled stream returns and closes the channel
\* without delivering what it had left
ProviderAbort(s) ==
    /\ streams[s].ctxDone
    /\ streams[s].go \in {"range", "send"}
    /\ streams[s].ch # <<>>
    /\ streams' = [streams EXCEPT ![s].ch = <<>>]
    /\ UNCHANGED <<compose, gen>>
    /\ UNCHANGED llmVars

KeyNext == KeyRunes \/ KeyEnter \/ KeyEsc \/ NewChat

RuntimeNext ==
    \E s \in StreamIds :
        streamCmd(s) \/ CmdDeliver(s) \/ GoRange(s) \/ GoSend(s) \/ ProviderAbort(s)

NextCompose == KeyNext \/ RuntimeNext

\* the program with a provider whose streams are the channels above
InitComposeView ==
    /\ InitWith({<<>>}, {<<>>})
    /\ mode = "openai"

SpecCompose == InitComposeView /\ [][NextCompose]_vars

\* the runtime schedules every command and goroutine; nothing makes the user
\* press a key
SpecComposeLive == SpecCompose /\ WF_vars(RuntimeNext)

ComposeTypeOK ==
    /\ compose.streaming \in BOOLEAN
    /\ compose.cancelFn \in 0..MaxStreams
    /\ gen \in 0..MaxNewChats
    /\ \A s \in StreamIds :
          /\ streams[s].cmd \in {"none", "queued", "returned", "delivered"}
          /\ streams[s].go \in {"none", "range", "send", "done"}
          /\ Len(streams[s].ch) <= MaxChunks
          /\ streams[s].model \in 0..gen

(* -------------------------------- C27 ---------------------------------- *)

\* C27: whenever the compose model is streaming and receives Esc (or
\* Ctrl+C), the context of the stream its last Enter started is cancelled,
\* streaming becomes false and the buffered text, if any, is appended as one
\* assistant message, whether or not the stream's StreamStartedMsg has
\* reached the model before the key.
C27_EscCancelsStream ==
    [][KeyEsc =>
          /\ streams'[NumStreams].ctxDone
          /\ ~compose'.streaming
          /\ compose'.streamBuf = ""
          /\ compose.streamBuf # "" =>
                compose'.messages =
                    Append(compose.messages, DisplayMessage("assistant", compose.streamBuf))]_vars

(* -------------------------------- C28 ---------------------------------- *)

\* C28: a StreamChunkMsg that reaches a compose model which is not
\* streaming leaves that model's stream buffer and message list unchanged.
C28_LateChunkIgnored ==
    [][\A s \in StreamIds :
          (GoSend(s) /\ streams[s].hold.type = "StreamChunkMsg" /\ ~compose.streaming) =>
              (compose'.streamBuf = compose.streamBuf /\ compose'.messages = compose.messages)]_vars

(* -------------------------------- C29 ---------------------------------- *)

\* the goroutine of stream s has seen the channel closed and no Done or
\* error message of the stream has reached Update
ClosedWithoutTerminal(s) ==
    /\ streams[s].go = "done"
    /\ ~streams[s].ended
    /\ ~streams[s].ctxDone
    /\ streams[s].model = gen

\* C29: if a stream's channel closes without delivering a Done or error
\* chunk, the compose model that started it eventually leaves the streaming
\* state, without any key press being needed.
C29_SilentCloseEndsStreaming ==
    \A s \in StreamIds : ClosedWithoutTerminal(s) ~> ~compose.streaming

(* -------------------------------- C30 ---------------------------------- *)

\* stream s is over for the model: a Done or error message of it has reached
\* Update, or its goroutine has returned
Completed(s) == streams[s].ended \/ streams[s].go = "done"

\* the streams model g has started that are neither over nor cancelled
InFlight(g) ==
    {s \in StreamIds :
        /\ streams[s].cmd # "none"
        /\ streams[s].model = g
        /\ ~Completed(s)
        /\ ~streams[s].ctxDone}

\* C30: at most one stream is in flight per compose model at any time: when
\* Enter has started a stream, every stream the model started before is over
\* or has had its context cancelled.
C30_OneStreamInFlight ==
    \A g \in 0..MaxNewChats : Cardinality(InFlight(g)) <= 1

====
